---------------------------- MODULE Spec2Model ----------------------------
(***************************************************************************)
(* Incremental synchronisation of a favourites collection into Markdown    *)
(* artifacts: DataSyncManager (src/src/data_sync.py), the transcript       *)
(* selector SubtitleExtractor._select_subtitles (src/src/get_subtitle.py)  *)
(* and the workflow entry point sync_workflow (src/main.py).               *)
(*                                                                         *)
(* Strings are sequences of one-character strings, so that file names,     *)
(* the collision suffix and the snapshot time stamp are built and compared *)
(* character by character, as the program does.                            *)
(***************************************************************************)
EXTENDS Integers, Sequences, FiniteSets, TLC

(***************************************************************************)
(* Bounds of the model.                                                    *)
(***************************************************************************)
MaxManifest == 2
MaxRuns == 3
MaxTicks == 1
MaxTracks == 3
MaxFaults == 1
MaxText == 3
MaxSubTracks == 2

(***************************************************************************)
(* Program constants.                                                      *)
(***************************************************************************)
DefaultMaxLength == 100

(***************************************************************************)
(* Character-level helpers.                                                *)
(***************************************************************************)
ToSet(s) == {s[i] : i \in 1..Len(s)}

DigitChar == <<"0", "1", "2", "3", "4", "5", "6", "7", "8", "9">>

RECURSIVE IntToStr(_)
IntToStr(n) ==
    IF n < 10 THEN <<DigitChar[n + 1]>>
    ELSE IntToStr(n \div 10) \o <<DigitChar[(n % 10) + 1]>>

Pad2(n) == <<DigitChar[(n \div 10) + 1], DigitChar[(n % 10) + 1]>>

\* Code points of the characters that occur in snapshot file names.
CharCode ==
    ("." :> 46) @@ ("0" :> 48) @@ ("1" :> 49) @@ ("2" :> 50) @@ ("3" :> 51) @@
    ("4" :> 52) @@ ("5" :> 53) @@ ("6" :> 54) @@ ("7" :> 55) @@ ("8" :> 56) @@
    ("9" :> 57) @@ ("_" :> 95) @@ ("c" :> 99) @@ ("d" :> 100) @@ ("e" :> 101) @@
    ("j" :> 106) @@ ("n" :> 110) @@ ("o" :> 111) @@ ("r" :> 114) @@
    ("s" :> 115) @@ ("y" :> 121)

\* Python's str ordering: code point by code point, a proper prefix first.
RECURSIVE StrLess(_, _)
StrLess(s, t) ==
    IF t = <<>> THEN FALSE
    ELSE IF s = <<>> THEN TRUE
    ELSE IF s[1] # t[1] THEN CharCode[s[1]] < CharCode[t[1]]
    ELSE StrLess(Tail(s), Tail(t))

\* [x for x in s if x in keep]
RECURSIVE FilterSeq(_, _)
FilterSeq(s, keep) ==
    IF s = <<>> THEN <<>>
    ELSE IF s[1] \in keep THEN <<s[1]>> \o FilterSeq(Tail(s), keep)
         ELSE FilterSeq(Tail(s), keep)

StartsWith(s, p) == Len(s) >= Len(p) /\ SubSeq(s, 1, Len(p)) = p

EndsWith(s, p) == Len(s) >= Len(p) /\ SubSeq(s, Len(s) - Len(p) + 1, Len(s)) = p

(***************************************************************************)
(* sanitize_filename                                                       *)
(***************************************************************************)
IllegalChars == {"<", ">", ":", "\"", "/", "\\", "|", "?", "*"}

WhitespaceChars == {" ", "\t", "\n", "\r"}

\* '/' is missing from the character class.
ReplaceIllegal_keeps_slash(s) ==
    [i \in 1..Len(s) |-> IF s[i] \in IllegalChars \ {"/"} THEN "_" ELSE s[i]]

ReplaceIllegal(s) ==
    [i \in 1..Len(s) |-> IF s[i] \in IllegalChars THEN "_" ELSE s[i]]

\* re.sub(r'\s+', ' ', s): every maximal run of whitespace becomes one space.
RECURSIVE CollapseWhitespace(_)
CollapseWhitespace(s) ==
    IF s = <<>> THEN <<>>
    ELSE IF s[1] \in WhitespaceChars
         THEN IF Len(s) >= 2 /\ s[2] \in WhitespaceChars
              THEN CollapseWhitespace(Tail(s))
              ELSE <<" ">> \o CollapseWhitespace(Tail(s))
         ELSE <<s[1]>> \o CollapseWhitespace(Tail(s))

RECURSIVE LStrip(_, _)
LStrip(s, chars) ==
    IF s # <<>> /\ s[1] \in chars THEN LStrip(Tail(s), chars) ELSE s

RECURSIVE RStrip(_, _)
RStrip(s, chars) ==
    IF s # <<>> /\ s[Len(s)] \in chars
    THEN RStrip(SubSeq(s, 1, Len(s) - 1), chars)
    ELSE s

StrStrip(s, chars) == RStrip(LStrip(s, chars), chars)

Untitled == <<"u", "n", "t", "i", "t", "l", "e", "d">>

sanitize_filename(filename, max_length) ==
    LET replaced  == ReplaceIllegal(filename)
        collapsed == StrStrip(CollapseWhitespace(replaced), WhitespaceChars)
        undotted  == StrStrip(collapsed, {"."})
        limited   == IF Len(undotted) > max_length
                     THEN StrStrip(SubSeq(undotted, 1, max_length), WhitespaceChars)
                     ELSE undotted
    IN  IF limited = <<>> THEN Untitled ELSE limited


(***************************************************************************)
(* Inputs of the model: the identifiers, their titles as the metadata file *)
(* gives them, the collections, and the directory contents found at start. *)
(***************************************************************************)
BVs == {"A", "B", "C"}

\* Raw titles: "a", " a." and "a?1"; the first two sanitize to "a", the
\* third to "a_1", the name the collision suffix gives the second "a".
TitleOf ==
    ("A" :> <<"a">>) @@ ("B" :> <<" ", "a", ".">>) @@ ("C" :> <<"a", "?", "1">>)

\* Entries of the metadata file: every identifier fetched successfully, and
\* one entry whose fetch failed (success false).
JsonItems ==
    {[bv |-> b, title |-> TitleOf[b], success |-> TRUE] : b \in BVs} \cup
    {[bv |-> "C", title |-> TitleOf["C"], success |-> FALSE]}

RECURSIVE SeqsUpTo(_, _)
SeqsUpTo(S, n) ==
    IF n = 0 THEN {<<>>}
    ELSE LET shorter == SeqsUpTo(S, n - 1)
         IN  shorter \cup {Append(s, x) : s \in {t \in shorter : Len(t) = n - 1}, x \in S}

JsonFiles == SeqsUpTo(JsonItems, MaxManifest)

MediaIds == {1}

\* The last second of a minute: one tick crosses the minute boundary.
StartClock == 60 - 1

MdSuffix == <<".", "m", "d">>

PreDoc == [bv |-> "pre", title |-> <<>>, whole |-> TRUE]

\* Output directories found at start: empty, or holding a foreign a.md.
InitialOutDirs == {<<>>, (<<"a">> \o MdSuffix) :> PreDoc}

(***************************************************************************)
(* Snapshot files: name and content.                                       *)
(***************************************************************************)
RecordPrefix == <<"s", "y", "n", "c", "_", "r", "e", "c", "o", "r", "d", "_">>

JsonSuffix == <<".", "j", "s", "o", "n">>

\* The date and hour fields of strftime("%Y%m%d_%H%M%S"), constant here.
DateHour == <<"2", "0", "2", "5", "1", "1", "0", "2", "_", "2", "1">>

\* "%Y%m%d_%H%S%M": the seconds before the minutes.
Timestamp_seconds_first(t) == DateHour \o Pad2(t % 60) \o Pad2((t \div 60) % 60)

\* strftime("%Y%m%d_%H%M%S") of a clock counted in seconds within the hour.
Timestamp(t) == DateHour \o Pad2((t \div 60) % 60) \o Pad2(t % 60)

RecordName(media_id, t) ==
    RecordPrefix \o IntToStr(media_id) \o <<"_">> \o Timestamp(t) \o JsonSuffix

\* The pattern without the '_' that ends the identifier:
\* f"sync_record_{media_id}*.json".
GlobMatch_no_separator(name, media_id) ==
    LET prefix == RecordPrefix \o IntToStr(media_id)
    IN  /\ Len(name) >= Len(prefix) + Len(JsonSuffix)
        /\ StartsWith(name, prefix)
        /\ EndsWith(name, JsonSuffix)

\* Path.glob(f"sync_record_{media_id}_*.json") on one file name.
GlobMatch(name, media_id) ==
    LET prefix == RecordPrefix \o IntToStr(media_id) \o <<"_">>
    IN  /\ Len(name) >= Len(prefix) + Len(JsonSuffix)
        /\ StartsWith(name, prefix)
        /\ EndsWith(name, JsonSuffix)

\* A snapshot file holds valid JSON with its identifiers, or is unreadable.
Snapshot(bvs) == [valid |-> TRUE, synced_bvs |-> bvs]

CorruptSnapshot == [valid |-> FALSE, synced_bvs |-> {}]

InitialRecDirs == {<<>>}

(***************************************************************************)
(* load_sync_record                                                        *)
(***************************************************************************)
\* sort() without reverse=True: the oldest snapshot is taken.
LatestRecord_oldest(record_files) ==
    CHOOSE n \in record_files : \A m \in record_files \ {n} : StrLess(n, m)

LatestRecord(record_files) ==
    CHOOSE n \in record_files : \A m \in record_files \ {n} : StrLess(m, n)

\* An unreadable latest snapshot is skipped for the latest readable one.
load_sync_record_falls_back(dir, media_id) ==
    LET readable == {n \in DOMAIN dir : GlobMatch(n, media_id) /\ dir[n].valid}
    IN  IF readable = {} THEN {} ELSE dir[LatestRecord(readable)].synced_bvs

load_sync_record(dir, media_id) ==
    LET record_files == {n \in DOMAIN dir : GlobMatch(n, media_id)}
    IN  IF record_files = {} THEN {}
        ELSE LET latest_record == LatestRecord(record_files)
             IN  IF dir[latest_record].valid
                 THEN dir[latest_record].synced_bvs
                 ELSE {}

(***************************************************************************)
(* compare_and_filter: list(set(current_bvs) - synced_bvs).  The order of  *)
(* list(set) is not fixed, so the operator gives every list it can return. *)
(***************************************************************************)
ListsOf(S) ==
    {l \in [1..Cardinality(S) -> S] : \A i, j \in 1..Cardinality(S) : l[i] = l[j] => i = j}

\* A list comprehension over current_bvs: repeated identifiers stay repeated.
compare_and_filter_keeps_repeats(current_bvs, synced_bvs) ==
    {FilterSeq(current_bvs, BVs \ synced_bvs)}

\* An empty history taken as "nothing to do".
compare_and_filter_first_nothing(current_bvs, synced_bvs) ==
    IF synced_bvs = {} THEN {<<>>} ELSE ListsOf(ToSet(current_bvs) \ synced_bvs)

\* The history is not subtracted.
compare_and_filter_ignores_synced(current_bvs, synced_bvs) ==
    ListsOf(ToSet(current_bvs))

compare_and_filter(current_bvs, synced_bvs) ==
    ListsOf(ToSet(current_bvs) \ synced_bvs)

(***************************************************************************)
(* extract_video_list and extract_video_info on a readable metadata file.  *)
(***************************************************************************)
extract_video_list(data) ==
    LET kept == FilterSeq(data, {it \in ToSet(data) : it.success})
    IN  [i \in 1..Len(kept) |-> kept[i].bv]

\* The target filter is dropped: every fetched entry is returned.
extract_video_info_all(data, target_bvs) ==
    FilterSeq(data, {it \in ToSet(data) : it.success})

\* The metadata is collected identifier by identifier, in the order of
\* target_bvs (the order list(set) happened to give).
RECURSIVE extract_video_info_by_target(_, _)
extract_video_info_by_target(data, target_bvs) ==
    IF target_bvs = <<>> THEN <<>>
    ELSE FilterSeq(data, {it \in ToSet(data) : it.success /\ it.bv = Head(target_bvs)})
         \o extract_video_info_by_target(data, Tail(target_bvs))

extract_video_info(data, target_bvs) ==
    FilterSeq(data, {it \in ToSet(data) : it.success /\ it.bv \in ToSet(target_bvs)})

(***************************************************************************)
(* save_to_markdown: the collision probe and the write.                    *)
(***************************************************************************)
\* The counter is incremented before it is formatted.
CandidatePath_off_by_one(safe_filename, counter) ==
    IF counter = 0 THEN safe_filename \o MdSuffix
    ELSE safe_filename \o <<"_">> \o IntToStr(counter + 1) \o MdSuffix

\* The counter is not formatted into the name: every candidate after the
\* first is {safe}_1.md.
CandidatePath_same_suffix(safe_filename, counter) ==
    IF counter = 0 THEN safe_filename \o MdSuffix
    ELSE safe_filename \o <<"_", "1">> \o MdSuffix

CandidatePath(safe_filename, counter) ==
    IF counter = 0 THEN safe_filename \o MdSuffix
    ELSE safe_filename \o <<"_">> \o IntToStr(counter) \o MdSuffix

\* The index of the first candidate that does not exist: 0 is
\* {safe}.md, k >= 1 is {safe}_k.md.
RECURSIVE ProbeIndex(_, _, _)
ProbeIndex(safe_filename, counter, existing) ==
    IF CandidatePath(safe_filename, counter) \in existing
    THEN ProbeIndex(safe_filename, counter + 1, existing)
    ELSE counter

\* No probe: the first candidate is taken whether it exists or not.
FreePath_no_probe(safe_filename, existing) ==
    CandidatePath(safe_filename, 0)

FreePath(safe_filename, existing) ==
    CandidatePath(safe_filename, ProbeIndex(safe_filename, 0, existing))

\* What a call can meet: the write succeeds; open() raises and leaves
\* nothing; write() raises after open() created the file.
SaveOutcomes == {"ok", "open_fails", "write_fails"}

Document(video_info, whole) ==
    [bv |-> video_info.bv, title |-> video_info.title, whole |-> whole]

save_to_markdown(dir, video_info, outcome) ==
    LET safe_filename == sanitize_filename(video_info.title, DefaultMaxLength)
        filepath      == FreePath(safe_filename, DOMAIN dir)
    IN  IF outcome = "open_fails" THEN dir
        ELSE (filepath :> Document(video_info, outcome = "ok")) @@ dir

(***************************************************************************)
(* update_sync_record                                                      *)
(***************************************************************************)
UpdateOutcomes == {"ok", "open_fails", "write_fails"}

update_sync_record(dir, media_id, all_synced_bvs, now, outcome) ==
    LET record_path == RecordName(media_id, now)
    IN  IF outcome = "open_fails" THEN dir
        ELSE IF outcome = "write_fails" THEN (record_path :> CorruptSnapshot) @@ dir
        ELSE (record_path :> Snapshot(all_synced_bvs)) @@ dir

(***************************************************************************)
(* State.                                                                  *)
(***************************************************************************)
VARIABLES
    outdir,           \* output directory: path -> document
    recdir,           \* sync_records directory: file name -> snapshot content
    clock,            \* datetime.now(), in seconds
    pc,               \* position of sync_data: idle, extract_list, load, ...
    json_file,        \* arguments of the current (or last) sync_data call
    media_id,
    current_bvs,      \* sync_data's locals, dropped when it returns
    synced_bvs,
    target_bvs,
    video_info_list,
    idx,              \* position of the for loop over video_info_list
    success_count,
    result,           \* what the last sync_data returned: none, true, false
    runs,             \* sync_data calls so far
    fault,            \* history: a read, write or append failed in this run
    made,             \* history: files this run created, per identifier
    failed,           \* history: identifiers whose save returned False in this run
    appended,         \* history: this run appended a snapshot
    sameAsPrev,       \* history: this call has the arguments of the one before
    prevClean,        \* history: the run before had no failure and returned True
    prevAppended,     \* history: the run before appended a snapshot
    prevFailed,       \* history: failed of the run before
    archived,         \* history: identifiers with an artifact from an earlier run
    omitted,          \* history: archived, then left out of an appended snapshot
    faults,           \* history: failures in all runs so far
    subtitles,        \* _select_subtitles: its argument
    selected,         \* _select_subtitles: what it returned
    selpc,            \* _select_subtitles: none, call, done
    fn,               \* text functions: the one called (none when no call)
    arg,              \* text functions: the arguments of the call
    ret,              \* text functions: what the call gave back (none before)
    writers           \* concurrent save_to_markdown calls: position and locals of each

argVars == <<json_file, media_id>>

localVars == <<current_bvs, synced_bvs, target_bvs, video_info_list, idx, success_count>>

prevVars == <<sameAsPrev, prevClean, prevAppended, prevFailed>>

textVars == <<fn, arg, ret, writers>>

selVars == <<subtitles, selected, selpc, textVars>>

vars == <<outdir, recdir, clock, pc, argVars, localVars, result, runs, fault, made,
          failed, appended, prevVars, archived, omitted, faults, selVars>>

NoneMade == [b \in BVs |-> 0]

\* The state before any sync_data call, with given directories.
SyncInit(outdirs, recdirs) ==
    /\ outdir \in outdirs
    /\ recdir \in recdirs
    /\ clock = StartClock
    /\ pc = "idle"
    /\ json_file = <<>>
    /\ media_id = 0
    /\ current_bvs = <<>>
    /\ synced_bvs = {}
    /\ target_bvs = <<>>
    /\ video_info_list = <<>>
    /\ idx = 0
    /\ success_count = 0
    /\ result = "none"
    /\ runs = 0
    /\ fault = FALSE
    /\ made = NoneMade
    /\ failed = {}
    /\ appended = FALSE
    /\ sameAsPrev = FALSE
    /\ prevClean = FALSE
    /\ prevAppended = FALSE
    /\ prevFailed = {}
    /\ archived = {}
    /\ omitted = {}
    /\ faults = 0

\* No text function is called.
NoTextCall ==
    /\ fn = "none"
    /\ arg = <<>>
    /\ ret = <<>>
    /\ writers = <<>>

Init ==
    /\ SyncInit(InitialOutDirs, InitialRecDirs)
    /\ subtitles = <<>>
    /\ selected = <<>>
    /\ selpc = "none"
    /\ NoTextCall

\* The failures the model injects are counted and capped at MaxFaults.
MayFail(n) == IF n < MaxFaults THEN BOOLEAN ELSE {TRUE}

Allowed(outcomes, n) == IF n < MaxFaults THEN outcomes ELSE {"ok"}

\* sync_data returns: its locals are gone, the run's history is closed.
Return(value, failure) ==
    /\ pc' = "idle"
    /\ result' = value
    /\ fault' = (fault \/ failure)
    /\ faults' = IF failure THEN faults + 1 ELSE faults
    /\ current_bvs' = <<>>
    /\ synced_bvs' = {}
    /\ target_bvs' = <<>>
    /\ video_info_list' = <<>>
    /\ idx' = 0
    /\ success_count' = 0

(***************************************************************************)
(* Time passes between two runs.  datetime.now() is taken not to go back;  *)
(* two runs may fall into the same second.                                 *)
(***************************************************************************)
Tick ==
    /\ pc = "idle"
    /\ clock < StartClock + MaxTicks
    /\ clock' = clock + 1
    /\ UNCHANGED <<outdir, recdir, pc, argVars, localVars, result, runs, fault, made,
                   failed, appended, prevVars, archived, omitted, faults, selVars>>

(***************************************************************************)
(* sync_data, one action per step of the method.                           *)
(***************************************************************************)
SyncDataCall ==
    /\ pc = "idle"
    /\ runs < MaxRuns
    /\ \E data \in JsonFiles, m \in MediaIds :
          /\ json_file' = data
          /\ media_id' = m
          /\ sameAsPrev' = (runs > 0 /\ data = json_file /\ m = media_id)
    /\ pc' = "extract_list"
    /\ runs' = runs + 1
    /\ result' = "none"
    /\ fault' = FALSE
    /\ made' = NoneMade
    /\ failed' = {}
    /\ prevClean' = (runs > 0 /\ ~fault /\ result = "true")
    /\ prevAppended' = appended
    /\ appended' = FALSE
    /\ prevFailed' = failed
    /\ archived' = archived \cup {b \in BVs : made[b] > 0}
    /\ omitted' = omitted \ {b \in BVs : made[b] > 0}
    /\ UNCHANGED <<outdir, recdir, clock, localVars, faults, selVars>>

\* An empty list ends the run with True.
ExtractVideoList_returns_true ==
    /\ pc = "extract_list"
    /\ \E readable \in MayFail(faults) :
          LET bv_list == IF readable THEN extract_video_list(json_file) ELSE <<>>
          IN  IF bv_list = <<>>
              THEN Return("true", ~readable)
              ELSE /\ pc' = "load"
                   /\ current_bvs' = bv_list
                   /\ UNCHANGED <<synced_bvs, target_bvs, video_info_list, idx,
                                  success_count, result, fault, faults>>
    /\ UNCHANGED <<outdir, recdir, clock, argVars, runs, made, failed, appended,
                   prevVars, archived, omitted, selVars>>

\* Step 1: extract_video_list; an unreadable file gives the empty list.
ExtractVideoList ==
    /\ pc = "extract_list"
    /\ \E readable \in MayFail(faults) :
          LET bv_list == IF readable THEN extract_video_list(json_file) ELSE <<>>
          IN  IF bv_list = <<>>
              THEN Return("false", ~readable)
              ELSE /\ pc' = "load"
                   /\ current_bvs' = bv_list
                   /\ UNCHANGED <<synced_bvs, target_bvs, video_info_list, idx,
                                  success_count, result, fault, faults>>
    /\ UNCHANGED <<outdir, recdir, clock, argVars, runs, made, failed, appended,
                   prevVars, archived, omitted, selVars>>

\* Step 2: load_sync_record.
LoadSyncRecord ==
    /\ pc = "load"
    /\ synced_bvs' = load_sync_record(recdir, media_id)
    /\ pc' = "compare"
    /\ UNCHANGED <<outdir, recdir, clock, argVars, current_bvs, target_bvs,
                   video_info_list, idx, success_count, result, runs, fault, made,
                   failed, appended, prevVars, archived, omitted, faults, selVars>>

\* An empty delta does not end the run: the snapshot is appended all the same.
CompareAndFilter_records_anyway ==
    /\ pc = "compare"
    /\ \E new_bvs \in compare_and_filter(current_bvs, synced_bvs) :
          /\ pc' = IF new_bvs = <<>> THEN "update" ELSE "extract_info"
          /\ target_bvs' = new_bvs
          /\ UNCHANGED <<current_bvs, synced_bvs, video_info_list, idx,
                         success_count, result, fault, faults>>
    /\ UNCHANGED <<outdir, recdir, clock, argVars, runs, made, failed, appended,
                   prevVars, archived, omitted, selVars>>

\* Step 3: compare_and_filter; an empty delta ends the run with True.
CompareAndFilter ==
    /\ pc = "compare"
    /\ \E new_bvs \in compare_and_filter(current_bvs, synced_bvs) :
          IF new_bvs = <<>>
          THEN Return("true", FALSE)
          ELSE /\ pc' = "extract_info"
               /\ target_bvs' = new_bvs
               /\ UNCHANGED <<current_bvs, synced_bvs, video_info_list, idx,
                              success_count, result, fault, faults>>
    /\ UNCHANGED <<outdir, recdir, clock, argVars, runs, made, failed, appended,
                   prevVars, archived, omitted, selVars>>

\* The snapshot is written as soon as the metadata is in hand, before the
\* artifacts.
ExtractVideoInfo_records_first ==
    /\ pc = "extract_info"
    /\ \E readable \in MayFail(faults) :
          LET infos == IF readable THEN extract_video_info(json_file, target_bvs) ELSE <<>>
          IN  IF infos = <<>>
              THEN Return("false", ~readable) /\ recdir' = recdir
              ELSE /\ pc' = "save"
                   /\ video_info_list' = infos
                   /\ idx' = 1
                   /\ recdir' = update_sync_record(recdir, media_id, ToSet(current_bvs),
                                                    clock, "ok")
                   /\ UNCHANGED <<current_bvs, synced_bvs, target_bvs, success_count,
                                  result, fault, faults>>
    /\ UNCHANGED <<outdir, clock, argVars, runs, made, failed, appended,
                   prevVars, archived, omitted, selVars>>

\* Step 4: extract_video_info; an unreadable file gives the empty list.
ExtractVideoInfo ==
    /\ pc = "extract_info"
    /\ \E readable \in MayFail(faults) :
          LET infos == IF readable THEN extract_video_info(json_file, target_bvs) ELSE <<>>
          IN  IF infos = <<>>
              THEN Return("false", ~readable)
              ELSE /\ pc' = "save"
                   /\ video_info_list' = infos
                   /\ idx' = 1
                   /\ UNCHANGED <<current_bvs, synced_bvs, target_bvs, success_count,
                                  result, fault, faults>>
    /\ UNCHANGED <<outdir, recdir, clock, argVars, runs, made, failed, appended,
                   prevVars, archived, omitted, selVars>>

\* A failed save leaves the loop (break).
SaveToMarkdown_breaks ==
    /\ pc = "save"
    /\ \E outcome \in Allowed(SaveOutcomes, faults) :
          LET video_info == video_info_list[idx]
              written    == save_to_markdown(outdir, video_info, outcome)
              created    == Cardinality(DOMAIN written \ DOMAIN outdir)
              ok         == outcome = "ok"
          IN  /\ outdir' = written
              /\ success_count' = IF ok THEN success_count + 1 ELSE success_count
              /\ made' = [made EXCEPT ![video_info.bv] = @ + created]
              /\ failed' = IF ok THEN failed ELSE failed \cup {video_info.bv}
              /\ fault' = (fault \/ ~ok)
              /\ faults' = IF ok THEN faults ELSE faults + 1
              /\ idx' = IF ok THEN idx + 1 ELSE Len(video_info_list) + 1
              /\ pc' = IF idx = Len(video_info_list) \/ ~ok THEN "update" ELSE "save"
    /\ UNCHANGED <<recdir, clock, argVars, current_bvs, synced_bvs, target_bvs,
                   video_info_list, result, runs, appended, prevVars, archived,
                   omitted, selVars>>

\* Step 5: one iteration of the loop, one save_to_markdown call.
SaveToMarkdown ==
    /\ pc = "save"
    /\ \E outcome \in Allowed(SaveOutcomes, faults) :
          LET video_info == video_info_list[idx]
              written    == save_to_markdown(outdir, video_info, outcome)
              created    == Cardinality(DOMAIN written \ DOMAIN outdir)
              ok         == outcome = "ok"
          IN  /\ outdir' = written
              /\ success_count' = IF ok THEN success_count + 1 ELSE success_count
              /\ made' = [made EXCEPT ![video_info.bv] = @ + created]
              /\ failed' = IF ok THEN failed ELSE failed \cup {video_info.bv}
              /\ fault' = (fault \/ ~ok)
              /\ faults' = IF ok THEN faults ELSE faults + 1
    /\ idx' = idx + 1
    /\ pc' = IF idx = Len(video_info_list) THEN "update" ELSE "save"
    /\ UNCHANGED <<recdir, clock, argVars, current_bvs, synced_bvs, target_bvs,
                   video_info_list, result, runs, appended, prevVars, archived,
                   omitted, selVars>>

\* Only the identifiers whose artifact was written are recorded.
all_synced_bvs_of_saved(current, saved) == saved

\* all_synced_bvs = list(set(current_bvs)), as the set it is stored as.
all_synced_bvs_of(current, saved) == ToSet(current)

\* Step 7: update_sync_record with every identifier of the current list.
UpdateSyncRecord ==
    /\ pc = "update"
    /\ \E outcome \in Allowed(UpdateOutcomes, faults) :
          LET all_synced_bvs == all_synced_bvs_of(current_bvs, {b \in BVs : made[b] > 0})
              ok             == outcome = "ok"
          IN  /\ recdir' = update_sync_record(recdir, media_id, all_synced_bvs, clock, outcome)
              /\ Return(IF ok THEN "true" ELSE "false", ~ok)
              /\ appended' = ok
              /\ omitted' = IF ok
                            THEN omitted \cup
                                 ((archived \cup {b \in BVs : made[b] > 0}) \ all_synced_bvs)
                            ELSE omitted
    /\ UNCHANGED <<outdir, clock, argVars, runs, made, failed, prevVars, archived,
                   selVars>>

Next ==
    \/ Tick
    \/ SyncDataCall
    \/ ExtractVideoList
    \/ LoadSyncRecord
    \/ CompareAndFilter
    \/ ExtractVideoInfo
    \/ SaveToMarkdown
    \/ UpdateSyncRecord

Spec == Init /\ [][Next]_vars

(***************************************************************************)
(* SubtitleExtractor._select_subtitles.  A track is its 'lan' entry (the   *)
(* key may be missing) and its place in the list, which stands for the     *)
(* rest of the dict.                                                       *)
(***************************************************************************)
AiPrefix == <<"a", "i", "-">>

AiZh == <<"a", "i", "-", "z", "h">>

\* Language tags: '', 'zh', 'ai-zh', 'ai-en'.
LanTags == {<<>>, <<"z", "h">>, AiZh, <<"a", "i", "-", "e", "n">>}

TrackKinds ==
    {[has_lan |-> TRUE, lan |-> t] : t \in LanTags} \cup {[has_lan |-> FALSE, lan |-> <<>>]}

TrackLists ==
    {[i \in 1..Len(kinds) |-> [has_lan |-> kinds[i].has_lan, lan |-> kinds[i].lan, pos |-> i]] :
        kinds \in SeqsUpTo(TrackKinds, MaxTracks)}

\* sub.get('lan', '')
GetLan(sub) == IF sub.has_lan THEN sub.lan ELSE <<>>

\* Any 'ai-' track as the fallback, instead of 'ai-zh' alone.
_select_subtitles_any_ai(subs) ==
    LET original_subtitles ==
            FilterSeq(subs, {sub \in ToSet(subs) :
                                GetLan(sub) # <<>> /\ ~StartsWith(GetLan(sub), AiPrefix)})
        ai_subtitles ==
            FilterSeq(subs, {sub \in ToSet(subs) : StartsWith(GetLan(sub), AiPrefix)})
    IN  IF original_subtitles # <<>> THEN original_subtitles
        ELSE IF ai_subtitles # <<>> THEN ai_subtitles
        ELSE <<>>

_select_subtitles(subs) ==
    LET original_subtitles ==
            FilterSeq(subs, {sub \in ToSet(subs) :
                                GetLan(sub) # <<>> /\ ~StartsWith(GetLan(sub), AiPrefix)})
        ai_zh_subtitles ==
            FilterSeq(subs, {sub \in ToSet(subs) : GetLan(sub) = AiZh})
    IN  IF original_subtitles # <<>> THEN original_subtitles
        ELSE IF ai_zh_subtitles # <<>> THEN ai_zh_subtitles
        ELSE <<>>

SelectInit ==
    /\ SyncInit({<<>>}, {<<>>})
    /\ subtitles \in TrackLists
    /\ selected = <<>>
    /\ selpc = "call"
    /\ NoTextCall

SelectSubtitles ==
    /\ selpc = "call"
    /\ selected' = _select_subtitles(subtitles)
    /\ selpc' = "done"
    /\ UNCHANGED <<outdir, recdir, clock, pc, argVars, localVars, result, runs, fault,
                   made, failed, appended, prevVars, archived, omitted, faults, subtitles,
                   textVars>>

SelectNext == SelectSubtitles

SelectSpec == SelectInit /\ [][SelectNext]_vars

(***************************************************************************)
(* clean_markdown_content.  The character U+0000 is written "NUL".         *)
(***************************************************************************)
Nul == "NUL"

\* str.replace(old, new): occurrences are taken left to right, not overlapping.
RECURSIVE StrReplace(_, _, _)
StrReplace(s, old, new) ==
    IF Len(s) < Len(old) THEN s
    ELSE IF SubSeq(s, 1, Len(old)) = old
         THEN new \o StrReplace(SubSeq(s, Len(old) + 1, Len(s)), old, new)
         ELSE <<s[1]>> \o StrReplace(Tail(s), old, new)

\* The replace() chain that undoes the escapes, one pass per escape.
Unescape(content) ==
    LET hidden   == StrReplace(content, <<"\\", "\\">>, <<Nul>>)
        newline  == StrReplace(hidden, <<"\\", "n">>, <<"\n">>)
        tab      == StrReplace(newline, <<"\\", "t">>, <<"\t">>)
        carriage == StrReplace(tab, <<"\\", "r">>, <<"\r">>)
        dquote   == StrReplace(carriage, <<"\\", "\"">>, <<"\"">>)
        squote   == StrReplace(dquote, <<"\\", "'">>, <<"'">>)
    IN  StrReplace(squote, <<Nul>>, <<"\\">>)

NormalizeNewlines(s) ==
    StrReplace(StrReplace(s, <<"\r", "\n">>, <<"\n">>), <<"\r">>, <<"\n">>)

RECURSIVE NewlineRun(_)
NewlineRun(s) ==
    IF s # <<>> /\ s[1] = "\n" THEN 1 + NewlineRun(Tail(s)) ELSE 0

\* re.sub(r'\n{3,}', '\n\n', s)
RECURSIVE CollapseBlankLines(_)
CollapseBlankLines(s) ==
    IF s = <<>> THEN <<>>
    ELSE LET run == NewlineRun(s)
         IN  IF run >= 3
             THEN <<"\n", "\n">> \o CollapseBlankLines(SubSeq(s, run + 1, Len(s)))
             ELSE <<s[1]>> \o CollapseBlankLines(Tail(s))

clean_markdown_content(content) ==
    IF content = <<>> THEN <<>>
    ELSE CollapseBlankLines(
             StrStrip(NormalizeNewlines(Unescape(content)), WhitespaceChars))

(***************************************************************************)
(* SubtitleExtractor.get_video_subtitles and                               *)
(* DataSyncManager.extract_subtitle_content.  A call gives back a value or *)
(* raises; what the network and the rewrite service answer for a track is  *)
(* part of the track: 'fetched' is what _fetch_subtitle_content returns    *)
(* (None, or a body with its text), 'rewritten' what the rewrite gives.    *)
(***************************************************************************)
\* The placeholder "no transcript", one token for the five characters.
Placeholder == <<"<no-transcript>">>

Raised == [raised |-> TRUE, value |-> <<>>]

Returned(v) == [raised |-> FALSE, value |-> v]

IsBlank(text) == StrStrip(text, WhitespaceChars) = <<>>

\* The first non-blank text of a field among the items; '' when none.
RECURSIVE FirstText(_, _)
FirstText(subs, field) ==
    IF subs = <<>> THEN <<>>
    ELSE IF ~IsBlank(subs[1][field]) THEN subs[1][field]
         ELSE FirstText(Tail(subs), field)

\* The loop over the selected tracks: a track whose fetch gave None is
\* skipped, a rewrite that raises leaves reformatted_content ''.
RECURSIVE SubtitleResults(_)
SubtitleResults(selected_subtitles) ==
    IF selected_subtitles = <<>> THEN <<>>
    ELSE LET sub  == selected_subtitles[1]
             rest == SubtitleResults(Tail(selected_subtitles))
         IN  IF ~sub.fetched.ok THEN rest
             ELSE <<[lan |-> GetLan(sub),
                     content |-> sub.fetched.text,
                     reformatted_content |->
                         IF sub.rewritten.raises THEN <<>> ELSE sub.rewritten.text]>>
                  \o rest

get_video_subtitles(video_info) ==
    IF ~video_info.subtitle_is_dict THEN Raised
    ELSE LET subtitles_list     == video_info.subtitles
             selected_subtitles == _select_subtitles(subtitles_list)
             subtitle_results   == SubtitleResults(selected_subtitles)
             failure            == Returned([success |-> FALSE, subtitles |-> <<>>])
         IN  IF subtitles_list = <<>> THEN failure
             ELSE IF selected_subtitles = <<>> THEN failure
             ELSE IF subtitle_results = <<>> THEN failure
             ELSE Returned([success |-> TRUE, subtitles |-> subtitle_results])

\* 'return cleaned_content' without the placeholder for an empty result.
extract_subtitle_content_unguarded(video_info, import_ok) ==
    LET subtitle_result == get_video_subtitles(video_info)
    IN  IF ~import_ok \/ subtitle_result.raised THEN Returned(Placeholder)
        ELSE IF ~subtitle_result.value.success THEN Returned(Placeholder)
        ELSE LET subs        == subtitle_result.value.subtitles
                 reformatted == FirstText(subs, "reformatted_content")
                 content     == FirstText(subs, "content")
             IN  IF subs = <<>> THEN Returned(Placeholder)
                 ELSE IF reformatted # <<>>
                      THEN Returned(clean_markdown_content(reformatted))
                 ELSE IF content # <<>>
                      THEN Returned(clean_markdown_content(content))
                 ELSE Returned(Placeholder)

\* One loop, track by track: the rewritten text of a track if it is not
\* blank, else its raw text; the first that cleans to something is returned.
RECURSIVE FirstCleaned(_)
FirstCleaned(subs) ==
    IF subs = <<>> THEN <<>>
    ELSE LET text == IF ~IsBlank(subs[1].reformatted_content)
                     THEN subs[1].reformatted_content ELSE subs[1].content
             cleaned == clean_markdown_content(text)
         IN  IF cleaned # <<>> THEN cleaned ELSE FirstCleaned(Tail(subs))

extract_subtitle_content_per_track(video_info, import_ok) ==
    LET subtitle_result == get_video_subtitles(video_info)
    IN  IF ~import_ok \/ subtitle_result.raised THEN Returned(Placeholder)
        ELSE IF ~subtitle_result.value.success THEN Returned(Placeholder)
        ELSE LET cleaned == FirstCleaned(subtitle_result.value.subtitles)
             IN  Returned(IF cleaned # <<>> THEN cleaned ELSE Placeholder)

\* import_ok: the import of get_subtitle and SubtitleExtractor() succeed.
extract_subtitle_content(video_info, import_ok) ==
    LET subtitle_result == get_video_subtitles(video_info)
        OrPlaceholder(cleaned) == IF cleaned # <<>> THEN cleaned ELSE Placeholder
    IN  IF ~import_ok \/ subtitle_result.raised THEN Returned(Placeholder)
        ELSE IF ~subtitle_result.value.success THEN Returned(Placeholder)
        ELSE LET subs        == subtitle_result.value.subtitles
                 reformatted == FirstText(subs, "reformatted_content")
                 content     == FirstText(subs, "content")
             IN  IF subs = <<>> THEN Returned(Placeholder)
                 ELSE IF reformatted # <<>>
                      THEN Returned(OrPlaceholder(clean_markdown_content(reformatted)))
                 ELSE IF content # <<>>
                      THEN Returned(OrPlaceholder(clean_markdown_content(content)))
                 ELSE Returned(Placeholder)

(***************************************************************************)
(* The text functions, each called once on an input of bounded size.       *)
(***************************************************************************)
\* File names to sanitize: a letter, white space, a dot, illegal characters.
FilenameChars == {"a", " ", ".", "?", "/"}

MaxLengths == (0..MaxText) \cup {DefaultMaxLength}

\* Texts to clean: backslashes, escape letters, a quote, U+0000, a letter.
ContentChars == {"\\", "n", "\"", Nul, "a"}

\* What a fetch gives: None, or a body whose text is " ", "x" or \n written
\* as an escape.
FetchOutcomes ==
    {[ok |-> FALSE, text |-> <<>>]} \cup
    {[ok |-> TRUE, text |-> t] : t \in {<<" ">>, <<"x">>, <<"\\", "n">>}}

\* What the rewrite gives: an exception, or the text "y" or \n as an escape.
RewriteOutcomes ==
    {[raises |-> TRUE, text |-> <<>>]} \cup
    {[raises |-> FALSE, text |-> t] : t \in {<<"y">>, <<"\\", "n">>}}

SubTrackKinds ==
    {[has_lan |-> TRUE, lan |-> l, fetched |-> f, rewritten |-> r] :
        l \in {<<"z", "h">>, AiZh, <<"a", "i", "-", "e", "n">>},
        f \in FetchOutcomes, r \in RewriteOutcomes}

SubtitleVideoInfos ==
    {[subtitle_is_dict |-> d, subtitles |-> subs] :
        d \in BOOLEAN, subs \in SeqsUpTo(SubTrackKinds, MaxSubTracks)}

TextInit ==
    /\ SyncInit({<<>>}, {<<>>})
    /\ subtitles = <<>>
    /\ selected = <<>>
    /\ selpc = "none"
    /\ ret = <<>>
    /\ writers = <<>>
    /\ \/ /\ fn = "sanitize_filename"
          /\ arg \in {[filename |-> f, max_length |-> n] :
                         f \in SeqsUpTo(FilenameChars, MaxText), n \in MaxLengths}
       \/ /\ fn = "clean_markdown_content"
          /\ arg \in {[content |-> c] : c \in SeqsUpTo(ContentChars, MaxText)}
       \/ /\ fn = "extract_subtitle_content"
          /\ arg \in {[video_info |-> v, import_ok |-> i] :
                         v \in SubtitleVideoInfos, i \in BOOLEAN}

TextUnchanged ==
    UNCHANGED <<outdir, recdir, clock, pc, argVars, localVars, result, runs, fault,
                made, failed, appended, prevVars, archived, omitted, faults,
                subtitles, selected, selpc, fn, arg, writers>>

SanitizeFilename ==
    /\ fn = "sanitize_filename" /\ ret = <<>>
    /\ ret' = Returned(sanitize_filename(arg.filename, arg.max_length))
    /\ TextUnchanged

\* 'unescaped' is the local 'cleaned' after the escapes are undone.
CleanMarkdownContent ==
    /\ fn = "clean_markdown_content" /\ ret = <<>>
    /\ ret' = [raised |-> FALSE,
               value |-> clean_markdown_content(arg.content),
               unescaped |-> IF arg.content = <<>> THEN <<>> ELSE Unescape(arg.content)]
    /\ TextUnchanged

ExtractSubtitleContent ==
    /\ fn = "extract_subtitle_content" /\ ret = <<>>
    /\ ret' = extract_subtitle_content(arg.video_info, arg.import_ok)
    /\ TextUnchanged

TextNext ==
    \/ SanitizeFilename
    \/ CleanMarkdownContent
    \/ ExtractSubtitleContent

TextSpec == TextInit /\ [][TextNext]_vars

(***************************************************************************)
(* Properties.                                                             *)
(***************************************************************************)
\* The identifiers of the run's manifest: the fetched entries of the file.
ManifestOf(data) == {data[i].bv : i \in {j \in 1..Len(data) : data[j].success}}

UniqueManifest(data) ==
    \A i, j \in 1..Len(data) :
        (data[i].success /\ data[j].success /\ data[i].bv = data[j].bv) => i = j

\* {safe}.md and {safe}_k.md, written out.
BaseName(safe) == safe \o <<".", "m", "d">>

SuffixedName(safe, k) == safe \o <<"_">> \o IntToStr(k) \o <<".", "m", "d">>

\* The sanitized title of the item the loop is about to save.
SafeNameAtIdx == sanitize_filename(video_info_list[idx].title, DefaultMaxLength)

SaveReturnsTrue == pc = "save" /\ success_count' = success_count + 1

SnapshotNames(m) == {RecordName(m, t) : t \in StartClock..(StartClock + MaxTicks)}

\* sync_data returns in this step.
Returns == pc # "idle" /\ pc' = "idle"

\* C1: a save_to_markdown call leaves every file that existed before it in
\* place with its content, and a call that returns True adds exactly one file.
C1_NoOverwrite ==
    [][pc = "save" =>
         /\ \A p \in DOMAIN outdir : p \in DOMAIN outdir' /\ outdir'[p] = outdir[p]
         /\ SaveReturnsTrue =>
                Cardinality(DOMAIN outdir') = Cardinality(DOMAIN outdir) + 1]_vars

\* A foreign a.md was in the directory and items titled "a" were saved next
\* to it: it still holds its own content.
C1_Witness ==
    /\ BaseName(<<"a">>) \in DOMAIN outdir
    /\ outdir[BaseName(<<"a">>)] = PreDoc
    /\ \E p \in DOMAIN outdir : outdir[p].bv \in {"A", "B"} /\ outdir[p].whole
    /\ success_count >= 1

\* C2: a run with the arguments of the run before, which had no failure and
\* returned True, computes an empty delta, creates no file and, unless it
\* fails itself, returns True.
C2_Idempotent ==
    (sameAsPrev /\ prevClean /\ ~fault) =>
        /\ pc \in {"extract_list", "load", "compare", "idle"}
        /\ made = NoneMade
        /\ pc = "idle" => result = "true"

\* The second of two runs over the same two-entry manifest has returned; the
\* first one wrote artifacts and appended the snapshot.
C2_Witness ==
    /\ pc = "idle"
    /\ sameAsPrev /\ prevClean /\ prevAppended /\ ~fault
    /\ result = "true"
    /\ Len(json_file) = 2

\* C3: compare_and_filter returns a list that holds exactly the members of
\* set(current_bvs) - synced_bvs, each once.
C3_SetDifference ==
    [][pc = "compare" =>
         /\ ToSet(target_bvs') = {b \in BVs : (\E i \in 1..Len(current_bvs) : current_bvs[i] = b)
                                               /\ b \notin synced_bvs}
         /\ \A i, j \in 1..Len(target_bvs') : target_bvs'[i] = target_bvs'[j] => i = j]_vars

\* The current list repeats an identifier, the history is not empty, and the
\* delta is the repeated identifier, once.
C3_Witness ==
    /\ pc = "extract_info"
    /\ Len(current_bvs) = 2 /\ current_bvs[1] = current_bvs[2]
    /\ synced_bvs # {}
    /\ Len(target_bvs) = 1

\* C4: with no snapshot file of the collection, load_sync_record has returned
\* the empty set and the delta holds every identifier of the current list.
C4_FirstSyncTakesAll ==
    [][(pc = "compare" /\ DOMAIN recdir \cap SnapshotNames(media_id) = {}) =>
         /\ synced_bvs = {}
         /\ pc' = "extract_info"
         /\ \A i \in 1..Len(current_bvs) :
                \E j \in 1..Len(target_bvs') : target_bvs'[j] = current_bvs[i]]_vars

\* A first run, no snapshot on disk, has a delta of two identifiers.
C4_Witness ==
    /\ pc = "extract_info"
    /\ DOMAIN recdir = {}
    /\ synced_bvs = {}
    /\ Len(target_bvs) = 2

\* C5 as stated: after a run without failure (it returns True) over a manifest
\* of unique identifiers that started with latest snapshot S, one file was created for
\* each identifier of manifest - S, none for the others, and
\* load_sync_record returns the identifiers of the manifest.
C5_Original ==
    [][(Returns /\ ~fault' /\ result' = "true" /\ UniqueManifest(json_file)) =>
         LET S == load_sync_record(recdir, media_id)
             M == ManifestOf(json_file)
         IN  /\ \A b \in BVs : made'[b] = IF b \in M \ S THEN 1 ELSE 0
             /\ load_sync_record(recdir', media_id) = M]_vars

\* C5 amended: as stated when manifest - S is not empty; when it is empty no
\* snapshot is appended and load_sync_record still returns S.
C5_SnapshotAfterRun ==
    [][(Returns /\ ~fault' /\ result' = "true" /\ UniqueManifest(json_file)) =>
         LET S == load_sync_record(recdir, media_id)
             M == ManifestOf(json_file)
         IN  /\ \A b \in BVs : made'[b] = IF b \in M \ S THEN 1 ELSE 0
             /\ load_sync_record(recdir', media_id) = IF M \ S # {} THEN M ELSE S
             /\ appended' = (M \ S # {})]_vars

\* A later failure-free run has returned: it wrote one identifier of its
\* manifest and left alone another one, which an earlier run had archived.
C5_Witness ==
    /\ pc = "idle" /\ runs >= 2 /\ ~fault /\ result = "true" /\ appended
    /\ UniqueManifest(json_file)
    /\ \E b, c \in ManifestOf(json_file) : made[b] = 1 /\ made[c] = 0 /\ c \in archived
    /\ load_sync_record(recdir, media_id) = ManifestOf(json_file)

C7_AppendOnly ==
    [][(pc = "update" /\ appended') =>
         /\ \A n \in DOMAIN recdir : n \in DOMAIN recdir' /\ recdir'[n] = recdir[n]
         /\ Cardinality(DOMAIN recdir') = Cardinality(DOMAIN recdir) + 1]_vars

\* C8: a save that returns True writes {safe}.md when it is free, and
\* otherwise {safe}_k.md for the least k >= 1 whose path is free.
C8_SmallestFreeSuffix ==
    [][SaveReturnsTrue =>
         LET created == DOMAIN outdir' \ DOMAIN outdir
         IN  IF BaseName(SafeNameAtIdx) \notin DOMAIN outdir
             THEN created = {BaseName(SafeNameAtIdx)}
             ELSE \E k \in 1..(Cardinality(DOMAIN outdir) + 1) :
                     /\ created = {SuffixedName(SafeNameAtIdx, k)}
                     /\ \A j \in 1..(k - 1) :
                            SuffixedName(SafeNameAtIdx, j) \in DOMAIN outdir]_vars

\* Two items whose titles sanitize to "a" were written into a directory that
\* held neither a.md nor a_1.md: they are a.md and a_1.md.
C8_Witness ==
    /\ BaseName(<<"a">>) \in DOMAIN outdir
    /\ SuffixedName(<<"a">>, 1) \in DOMAIN outdir
    /\ {outdir[BaseName(<<"a">>)].bv, outdir[SuffixedName(<<"a">>, 1)].bv} = {"A", "B"}

\* C9 as stated: without failures, no identifier that has an artifact from
\* an earlier run gets one in this run.
C9_Original ==
    faults = 0 => \A b \in archived : made[b] = 0

\* C9 amended: without failures, an identifier that has an artifact from an
\* earlier run gets one in this run only if a snapshot appended since then
\* left it out.
C9_NoRepeatWhileListed ==
    faults = 0 => \A b \in archived \ omitted : made[b] = 0

\* A later run wrote an item while an archived one, still in the manifest
\* and in every snapshot since, was left alone.
C9_Witness ==
    /\ faults = 0 /\ pc = "idle" /\ result = "true"
    /\ \E b \in (archived \ omitted) \cap ManifestOf(json_file) :
          made[b] = 0 /\ \E c \in BVs : made[c] > 0

\* The places of the tracks of a list, and of those with a property.
Places(subs) == {subs[i].pos : i \in 1..Len(subs)}

InOriginalOrder(subs) ==
    /\ \A i \in 1..Len(subs) : subs[i] = subtitles[subs[i].pos]
    /\ \A i, j \in 1..Len(subs) : i < j => subs[i].pos < subs[j].pos

TagAt(i) == IF subtitles[i].has_lan THEN subtitles[i].lan ELSE <<>>

HasAiPrefix(tag) == Len(tag) >= 3 /\ tag[1] = "a" /\ tag[2] = "i" /\ tag[3] = "-"

IsAiZh(tag) == tag = <<"a", "i", "-", "z", "h">>

\* C10 as stated: the tracks whose tag does not start with 'ai-' when there
\* is one, otherwise the track(s) tagged 'ai-zh', otherwise nothing.
C10_Original ==
    selpc = "done" =>
        LET human == {i \in 1..Len(subtitles) : ~HasAiPrefix(TagAt(i))}
            aizh  == {i \in 1..Len(subtitles) : IsAiZh(TagAt(i))}
        IN  /\ InOriginalOrder(selected)
            /\ Places(selected) = IF human # {} THEN human ELSE aizh

\* C10 amended: the tracks whose tag is present, not empty and does not
\* start with 'ai-' when there is one, otherwise every track tagged
\* 'ai-zh', otherwise nothing; in original order.
C10_HumanThenAiZh ==
    selpc = "done" =>
        LET human == {i \in 1..Len(subtitles) : TagAt(i) # <<>> /\ ~HasAiPrefix(TagAt(i))}
            aizh  == {i \in 1..Len(subtitles) : IsAiZh(TagAt(i))}
        IN  /\ InOriginalOrder(selected)
            /\ Places(selected) = IF human # {} THEN human ELSE aizh

\* An untagged track, an 'ai-en' track and an 'ai-zh' track: the 'ai-zh'
\* track alone was selected.
C10_Witness ==
    /\ selpc = "done"
    /\ Len(subtitles) = 3
    /\ \E i \in 1..3 : TagAt(i) = <<>>
    /\ \E i \in 1..3 : TagAt(i) = <<"a", "i", "-", "e", "n">>
    /\ Len(selected) = 1 /\ IsAiZh(selected[1].lan)

\* The tracks of the call's item, the places the selector keeps (the tagged
\* tracks that are not machine-made, else the 'ai-zh' ones), and whether the
\* track at a place yields text that is not blank.
SubTracks == arg.video_info.subtitles

SubKept ==
    LET tagged == {i \in 1..Len(SubTracks) :
                      SubTracks[i].lan # <<>> /\ ~HasAiPrefix(SubTracks[i].lan)}
        aizh   == {i \in 1..Len(SubTracks) : IsAiZh(SubTracks[i].lan)}
    IN  IF tagged # {} THEN tagged ELSE aizh

NotBlank(text) == \E i \in 1..Len(text) : text[i] \notin {" ", "\t", "\n", "\r"}

SubYields(i) ==
    /\ SubTracks[i].fetched.ok
    /\ \/ NotBlank(SubTracks[i].fetched.text)
       \/ ~SubTracks[i].rewritten.raises /\ NotBlank(SubTracks[i].rewritten.text)

C12_SafeName ==
    (fn = "sanitize_filename" /\ DOMAIN ret # {}) =>
        /\ ~ret.raised
        /\ ret.value # <<>>
        /\ \A i \in 1..Len(ret.value) :
               ret.value[i] \notin {"<", ">", ":", "\"", "/", "\\", "|", "?", "*"}

\* "a?/" cut to two characters gave "a_".
C12_Witness ==
    /\ fn = "sanitize_filename" /\ DOMAIN ret # {}
    /\ arg.filename = <<"a", "?", "/">> /\ arg.max_length = 2
    /\ ret.value = <<"a", "_">>

\* One pass from left to right: \\ is a backslash, \n \t \r \" \' are the
\* characters they name, anything else stays.
RECURSIVE UnescapeLeftToRight(_)
UnescapeLeftToRight(s) ==
    LET Named == ("n" :> "\n") @@ ("t" :> "\t") @@ ("r" :> "\r") @@
                 ("\"" :> "\"") @@ ("'" :> "'") @@ ("\\" :> "\\")
    IN  IF s = <<>> THEN <<>>
        ELSE IF s[1] = "\\" /\ Len(s) >= 2 /\ s[2] \in DOMAIN Named
             THEN <<Named[s[2]]>> \o UnescapeLeftToRight(SubSeq(s, 3, Len(s)))
             ELSE <<s[1]>> \o UnescapeLeftToRight(Tail(s))

\* C13 as stated: for every text, also one that holds U+0000, the text
\* clean_markdown_content has after undoing the escapes is the one a single
\* pass from left to right gives.
C13_SinglePassUnescape ==
    (fn = "clean_markdown_content" /\ DOMAIN ret # {} /\ arg.content # <<>>) =>
        ret.unescaped = UnescapeLeftToRight(arg.content)

\* The snapshot files of a collection, and the second a file name encodes.
RecordFiles(dir, m) == DOMAIN dir \cap SnapshotNames(m)

TimeOf(name, m) ==
    CHOOSE t \in StartClock..(StartClock + MaxTicks) : RecordName(m, t) = name

\* C14: load_sync_record returns the identifiers of the snapshot file whose
\* name encodes the greatest time, and a snapshot just appended is that file:
\* no file of the collection encodes a later time.
C14_LatestByTimestamp ==
    [][/\ (pc = "load" /\ RecordFiles(recdir, media_id) # {}) =>
              LET files  == RecordFiles(recdir, media_id)
                  newest == CHOOSE n \in files :
                                \A o \in files : TimeOf(o, media_id) <= TimeOf(n, media_id)
              IN  recdir[newest].valid => synced_bvs' = recdir[newest].synced_bvs
       /\ (pc = "update" /\ appended') =>
              /\ RecordName(media_id, clock) \in DOMAIN recdir'
              /\ \A o \in RecordFiles(recdir', media_id) : TimeOf(o, media_id) <= clock]_vars

\* Two snapshots with different identifiers, one second apart across the
\* minute; the run has read the identifiers of the later one.
C14_Witness ==
    /\ pc = "compare"
    /\ Cardinality(RecordFiles(recdir, media_id)) = 2
    /\ recdir[RecordName(media_id, StartClock)].valid
    /\ recdir[RecordName(media_id, StartClock + 1)].valid
    /\ synced_bvs = recdir[RecordName(media_id, StartClock + 1)].synced_bvs
    /\ synced_bvs # recdir[RecordName(media_id, StartClock)].synced_bvs

\* The snapshot file of a collection whose name encodes the greatest time.
NewestRecord(dir, m) ==
    CHOOSE n \in RecordFiles(dir, m) :
        \A o \in RecordFiles(dir, m) : TimeOf(o, m) <= TimeOf(n, m)

LatestIsCorrupt ==
    /\ RecordFiles(recdir, media_id) # {}
    /\ ~recdir[NewestRecord(recdir, media_id)].valid

\* C15: when the newest snapshot file is unreadable, load_sync_record gives
\* the empty set, older readable snapshots or not, and the run goes on with
\* a delta that holds every identifier of the current list.
C15_CorruptLatestIsFirstSync ==
    [][/\ (pc = "load" /\ LatestIsCorrupt) => (synced_bvs' = {} /\ pc' = "compare")
       /\ (pc = "compare" /\ LatestIsCorrupt) =>
              /\ pc' = "extract_info"
              /\ ToSet(target_bvs') = ToSet(current_bvs)]_vars

\* An older readable snapshot and a newer unreadable one: the delta holds an
\* identifier the older snapshot lists.
C15_Witness ==
    /\ pc = "extract_info"
    /\ Cardinality(RecordFiles(recdir, media_id)) = 2
    /\ recdir[RecordName(media_id, StartClock)].valid
    /\ ~recdir[RecordName(media_id, StartClock + 1)].valid
    /\ ToSet(target_bvs) \cap recdir[RecordName(media_id, StartClock)].synced_bvs # {}

\* C16: a save_to_markdown call that returns False does not end the loop:
\* the next item of the list is attempted, after the last one the snapshot
\* append is attempted, and a run with a failed item returns only from there.
C16_FailureDoesNotStopBatch ==
    [][/\ (pc = "save" /\ failed' # {}) =>
              /\ video_info_list' = video_info_list
              /\ idx' = idx + 1
              /\ pc' = IF idx < Len(video_info_list) THEN "save" ELSE "update"
       /\ (pc # "idle" /\ pc' = "idle" /\ failed # {}) =>
              /\ pc = "update"
              /\ idx = Len(video_info_list) + 1]_vars

\* The write of the first of two items failed, the second was written and
\* the snapshot was appended.
C16_Witness ==
    /\ pc = "idle" /\ Len(json_file) = 2
    /\ failed = {json_file[1].bv}
    /\ made[json_file[2].bv] = 1
    /\ appended

\* C17: a run whose file yields no identifier ends at once, and a run that
\* ends at step 1 or at step 4 (no identifier, no metadata for the delta)
\* returns False having created or changed no artifact and no snapshot; a
\* run that goes past these steps has a non-empty list in hand.
C17_AbortWritesNothing ==
    [][/\ (pc = "extract_list" /\ ManifestOf(json_file) = {}) => pc' = "idle"
       /\ (pc \in {"extract_list", "extract_info"} /\ pc' = "idle") =>
              /\ result' = "false"
              /\ outdir' = outdir /\ recdir' = recdir
              /\ made' = NoneMade /\ ~appended'
       /\ (pc = "extract_list" /\ pc' # "idle") => current_bvs' # <<>>
       /\ (pc = "extract_info" /\ pc' # "idle") => video_info_list' # <<>>]_vars

\* After a run that archived an item, a run over a file whose only entry
\* was not fetched has returned False; artifacts and snapshots are as before.
C17_Witness ==
    /\ pc = "idle" /\ runs >= 2 /\ result = "false" /\ ~fault
    /\ json_file # <<>> /\ ManifestOf(json_file) = {}
    /\ archived # {} /\ made = NoneMade /\ ~appended
    /\ DOMAIN recdir # {}

\* C18: within a run the delta is computed only after the history was
\* read, artifacts are written only in the loop that follows the delta and
\* the metadata lookup, and the snapshot is appended only after the last
\* item of the loop, by the step the run returns from: no artifact is
\* written after it.
C18_StepOrder ==
    [][/\ pc' = "compare" => pc = "load"
       /\ pc' = "extract_info" => pc = "compare"
       /\ pc' = "save" => pc \in {"extract_info", "save"}
       /\ outdir' # outdir => (pc = "save" /\ ~appended /\ recdir' = recdir)
       /\ pc' = "update" => (pc = "save" /\ idx = Len(video_info_list))
       /\ recdir' # recdir => (pc = "update" /\ pc' = "idle" /\ outdir' = outdir)]_vars

\* A run that read a snapshot of an earlier run, wrote two artifacts and
\* appended its snapshot has returned.
C18_Witness ==
    /\ pc = "idle" /\ runs >= 2 /\ prevAppended /\ appended
    /\ Cardinality({b \in BVs : made[b] = 1}) = 2
    /\ Cardinality(DOMAIN recdir) = 2

\* The delta of the run, at the step it is computed and after.
DeltaNow ==
    IF pc = "compare" THEN ToSet(current_bvs) \ synced_bvs ELSE ToSet(target_bvs)

\* C19 as stated: a run that returns True has added one snapshot file.
C19_Original ==
    [][(Returns /\ result' = "true") =>
         Cardinality(RecordFiles(recdir', media_id)) =
             Cardinality(RecordFiles(recdir, media_id)) + 1]_vars

\* C19 amended: a run that returns True with an empty delta has left the
\* snapshot files alone; one with a non-empty delta has written exactly one
\* snapshot file, the one named after the current second, new or not.
C19_SnapshotPerNonEmptyRun ==
    [][(Returns /\ result' = "true") =>
         IF DeltaNow = {}
         THEN recdir' = recdir /\ ~appended'
         ELSE /\ appended'
              /\ DOMAIN recdir' = DOMAIN recdir \cup {RecordName(media_id, clock)}
              /\ recdir'[RecordName(media_id, clock)].valid
              /\ \A n \in DOMAIN recdir \ {RecordName(media_id, clock)} :
                     recdir'[n] = recdir[n]]_vars

\* Three runs have returned True, the last one with an empty delta: there
\* are fewer snapshot files than successful runs.
C19_Witness ==
    /\ pc = "idle" /\ runs = 3 /\ faults = 0
    /\ result = "true" /\ prevClean /\ prevAppended /\ ~appended
    /\ Cardinality(DOMAIN recdir) < 3

\* C20 as stated: when update_sync_record fails in a run that wrote an
\* artifact, the artifacts stay as they are and the run returns True.
C20_PartialSuccessReported ==
    [][(pc = "update" /\ pc' = "idle" /\ ~appended' /\ (\E b \in BVs : made[b] > 0)) =>
         /\ outdir' = outdir
         /\ result' = "true"]_vars


(***************************************************************************)
(* C21.  The order of the writes and the holder of the collision suffix.   *)
(***************************************************************************)
\* The pending entries of the metadata file, in the order of the file:
\* a function of the file and of the history alone.
PendingInFileOrder ==
    FilterSeq(json_file, {it \in ToSet(json_file) :
                             it.success /\ it.bv \in ManifestOf(json_file) \ synced_bvs})

\* The file the next save_to_markdown call creates, given the directory.
NextPath == FreePath(SafeNameAtIdx, DOMAIN outdir)

\* C21: for a given metadata file and history, the list the loop of a run
\* walks is the pending entries in file order, whatever order list(set)
\* gave target_bvs; so the item written at each position, and with it the
\* item that takes the collision suffix, is the same in every execution.
C21_OrderIndependentOfSetOrder ==
    pc = "save" =>
        /\ video_info_list = PendingInFileOrder
        /\ NextPath = FreePath(sanitize_filename(PendingInFileOrder[idx].title,
                                                 DefaultMaxLength), DOMAIN outdir)

\* Two pending items with the same sanitized title are about to be written,
\* and target_bvs lists them in the other order.
C21_Witness ==
    /\ pc = "save"
    /\ idx = 1
    /\ Len(video_info_list) = 2
    /\ video_info_list[1].bv # video_info_list[2].bv
    /\ target_bvs = <<video_info_list[2].bv, video_info_list[1].bv>>
    /\ sanitize_filename(video_info_list[1].title, DefaultMaxLength)
         = sanitize_filename(video_info_list[2].title, DefaultMaxLength)

(***************************************************************************)
(* C22.  A run that is interrupted: KeyboardInterrupt is no Exception, so  *)
(* no handler of sync_data or of the methods it calls catches it, and a    *)
(* killed process runs no handler at all.  The run stops where it is.  An  *)
(* interruption inside a call that has opened its file for writing leaves  *)
(* the file as open() made it, with what was flushed so far.               *)
(***************************************************************************)
Interrupt ==
    /\ pc # "idle"
    /\ faults < MaxFaults
    /\ \E file_open \in BOOLEAN :
          LET in_save   == pc = "save" /\ file_open
              in_update == pc = "update" /\ file_open
              written   == IF in_save
                           THEN save_to_markdown(outdir, video_info_list[idx], "write_fails")
                           ELSE outdir
              created   == Cardinality(DOMAIN written \ DOMAIN outdir)
          IN  /\ outdir' = written
              /\ made' = IF in_save
                         THEN [made EXCEPT ![video_info_list[idx].bv] = @ + created]
                         ELSE made
              /\ failed' = IF in_save THEN failed \cup {video_info_list[idx].bv} ELSE failed
              /\ recdir' = IF in_update
                           THEN update_sync_record(recdir, media_id,
                                    all_synced_bvs_of(current_bvs, {b \in BVs : made[b] > 0}),
                                    clock, "write_fails")
                           ELSE recdir
    /\ Return("interrupted", TRUE)
    /\ UNCHANGED <<clock, argVars, runs, appended, prevVars, archived, omitted, selVars>>

InterruptNext ==
    \/ Next
    \/ Interrupt

InterruptSpec == Init /\ [][InterruptNext]_vars

\* The pending items of the current run that have no complete artifact
\* of this run after the step.
Unwritten ==
    (ManifestOf(json_file) \ load_sync_record(recdir, media_id))
        \ {b \in BVs : made'[b] > 0 /\ b \notin failed'}

\* C22: a run interrupted before update_sync_record has completed leaves no
\* snapshot file of its own (the sync_records directory is as the run found
\* it), and the delta a next run over the same metadata file would compute
\* holds every item the interrupted run left unwritten.
C22_InterruptedRunLeavesNoSnapshot ==
    [][pc # "idle" /\ result' = "interrupted" =>
          /\ recdir' = recdir
          /\ Unwritten \subseteq
                 ManifestOf(json_file) \ load_sync_record(recdir', media_id)]_vars

(***************************************************************************)
(* C23.  Which track's text extract_subtitle_content returns.              *)
(***************************************************************************)
\* The kept tracks whose fetch gave a body, and among them those with a
\* rewritten text, and those with a raw text, that is not blank.
SubFetched == {i \in SubKept : SubTracks[i].fetched.ok}

SubRewritten ==
    {i \in SubFetched : ~SubTracks[i].rewritten.raises
                         /\ NotBlank(SubTracks[i].rewritten.text)}

SubRaw == {i \in SubFetched : NotBlank(SubTracks[i].fetched.text)}

MinOf(S) == CHOOSE i \in S : \A j \in S : i <= j

\* The text of a track as the claim reads it: its rewritten content if
\* present and not blank, otherwise its raw content.
TrackText(i) ==
    IF i \in SubRewritten THEN SubTracks[i].rewritten.text ELSE SubTracks[i].fetched.text

CleanOrPlaceholder(text) ==
    IF clean_markdown_content(text) # <<>> THEN clean_markdown_content(text)
    ELSE <<"<no-transcript>">>

TrimmedName(filename, max_length) ==
    LET edge    == WhitespaceChars \cup {"."}
        trimmed == StrStrip(CollapseWhitespace(ReplaceIllegal(filename)), edge)
    IN  IF Len(trimmed) > max_length
        THEN StrStrip(SubSeq(trimmed, 1, max_length), edge)
        ELSE trimmed

\* C24: for every name and max_length, the result neither starts nor ends
\* with whitespace or with a dot, holds no two whitespace characters in a
\* row, and is at most max_length long unless it is 'untitled', which is
\* returned exactly when the cleaned name is empty.
C24_TrimmedAndBounded ==
    (fn = "sanitize_filename" /\ DOMAIN ret # {}) =>
        LET name == ret.value
            edge == WhitespaceChars \cup {"."}
        IN  /\ name # <<>>
            /\ name[1] \notin edge
            /\ name[Len(name)] \notin edge
            /\ \A i \in 1..(Len(name) - 1) :
                  ~(name[i] \in WhitespaceChars /\ name[i + 1] \in WhitespaceChars)
            /\ (name # Untitled => Len(name) <= arg.max_length)
            /\ (name = Untitled <=> TrimmedName(arg.filename, arg.max_length) = <<>>)

(***************************************************************************)
(* C25.  What a save_to_markdown call leaves on disk.                      *)
(***************************************************************************)
\* C25: when a save_to_markdown call has returned, with True or with False,
\* every file it created holds the complete document: a call whose write
\* fails leaves no empty or cut file.
C25_NoPartialFile ==
    [][pc = "save" =>
          \A path \in DOMAIN outdir' \ DOMAIN outdir : outdir'[path].whole]_vars

(***************************************************************************)
(* Two save_to_markdown calls at once, into one output directory: two      *)
(* processes, or two threads.  Each call is taken step by step: every      *)
(* filepath.exists() of the probe loop, the open() that creates or empties *)
(* the file, the write that fills it.                                      *)
(***************************************************************************)
Writers == {1, 2}

RaceItems == {it \in JsonItems : it.success}

\* Directories the calls may find: empty, a.md, a.md and a_1.md.
RaceOutDirs ==
    InitialOutDirs \cup
    {((<<"a">> \o MdSuffix) :> PreDoc) @@ ((<<"a", "_", "1">> \o MdSuffix) :> PreDoc)}

RaceInit ==
    /\ SyncInit(RaceOutDirs, {<<>>})
    /\ subtitles = <<>>
    /\ selected = <<>>
    /\ selpc = "none"
    /\ fn = "save_to_markdown"
    /\ arg = [existing |-> DOMAIN outdir]
    /\ ret = <<>>
    /\ writers \in [Writers -> {[video_info |-> it, pc |-> "probe", counter |-> 0] :
                                   it \in RaceItems}]

RaceUnchanged ==
    UNCHANGED <<recdir, clock, pc, argVars, localVars, result, runs, fault, made,
                failed, appended, prevVars, archived, omitted, faults,
                subtitles, selected, selpc, fn, arg, ret>>

SafeName(w) == sanitize_filename(writers[w].video_info.title, DefaultMaxLength)

\* The local 'filepath' of a call; counter 0 is {safe}.md.
FilePath(w) == CandidatePath(SafeName(w), writers[w].counter)

\* The probe creates the file it found free in the same step (an exclusive
\* create), so that no other call can find it free.
Probe_reserves(w) ==
    /\ writers[w].pc = "probe"
    /\ IF FilePath(w) \in DOMAIN outdir
       THEN /\ writers' = [writers EXCEPT ![w].counter = @ + 1]
            /\ outdir' = outdir
       ELSE /\ writers' = [writers EXCEPT ![w].pc = "open"]
            /\ outdir' = (FilePath(w) :> Document(writers[w].video_info, FALSE)) @@ outdir
    /\ RaceUnchanged

\* One evaluation of the loop condition filepath.exists().
Probe(w) ==
    /\ writers[w].pc = "probe"
    /\ IF FilePath(w) \in DOMAIN outdir
       THEN writers' = [writers EXCEPT ![w].counter = @ + 1]
       ELSE writers' = [writers EXCEPT ![w].pc = "open"]
    /\ outdir' = outdir
    /\ RaceUnchanged

\* open(filepath, 'w'): the file is created, or emptied if it exists.
Open(w) ==
    /\ writers[w].pc = "open"
    /\ outdir' = (FilePath(w) :> Document(writers[w].video_info, FALSE)) @@ outdir
    /\ writers' = [writers EXCEPT ![w].pc = "write"]
    /\ RaceUnchanged

\* f.write and the close.  The text goes to the start of the file: over a
\* text another call wrote there since this call's open(), the end of a
\* longer text stays.
Write(w) ==
    /\ writers[w].pc = "write"
    /\ \E tail_left \in (IF outdir[FilePath(w)].whole THEN BOOLEAN ELSE {FALSE}) :
          outdir' = [outdir EXCEPT ![FilePath(w)] =
                        Document(writers[w].video_info, ~tail_left)]
    /\ writers' = [writers EXCEPT ![w].pc = "done"]
    /\ RaceUnchanged

RaceNext ==
    \E w \in Writers :
        \/ Probe(w)
        \/ Open(w)
        \/ Write(w)

RaceSpec == RaceInit /\ [][RaceNext]_vars

\* C26: nothing keeps two concurrent calls for one sanitized title apart.
\* While both have left the probe loop and neither has opened its file,
\* both hold the same path; and when two calls that held the same path have
\* both returned, the directory has one new file for the two calls, holding
\* the text of one of them.
C26_CheckThenCreateRace ==
    \A w1, w2 \in Writers :
        (w1 # w2 /\ SafeName(w1) = SafeName(w2)) =>
            /\ (writers[w1].pc = "open" /\ writers[w2].pc = "open")
                   => FilePath(w1) = FilePath(w2)
            /\ (/\ writers[w1].pc = "done" /\ writers[w2].pc = "done"
                /\ FilePath(w1) = FilePath(w2))
                   => /\ DOMAIN outdir \ arg.existing = {FilePath(w1)}
                      /\ outdir[FilePath(w1)].bv \in
                             {writers[w1].video_info.bv, writers[w2].video_info.bv}

\* Calls for the items A and B (titles "a" and " a.") have both returned,
\* both wrote to the same path, and no file holds A.
C26_Witness ==
    /\ fn = "save_to_markdown"
    /\ writers[1].video_info.bv = "A" /\ writers[2].video_info.bv = "B"
    /\ writers[1].pc = "done" /\ writers[2].pc = "done"
    /\ FilePath(1) = FilePath(2)
    /\ \A path \in DOMAIN outdir : outdir[path].bv # "A"

(***************************************************************************)
(* C30.  The length of the collision probe.                                *)
(***************************************************************************)
\* C30: the probe loop of a call ends after at most (files in the output
\* directory + 1) evaluations of filepath.exists(): the candidates it has
\* found taken are as many as its counter, they are files of the directory,
\* all different, and the path it leaves the loop with does not exist then.
C30_ProbeTerminates ==
    [][\A w \in Writers :
          /\ writers'[w].counter <= Cardinality(DOMAIN outdir')
          /\ \A j, k \in 0..(writers'[w].counter - 1) :
                /\ CandidatePath(SafeName(w), j) \in DOMAIN outdir'
                /\ CandidatePath(SafeName(w), j) = CandidatePath(SafeName(w), k) => j = k
          /\ (writers[w].pc = "probe" /\ writers'[w].pc = "open") =>
                /\ FilePath(w) \notin DOMAIN outdir
                /\ writers[w].counter + 1 <= Cardinality(DOMAIN outdir) + 1]_vars

\* A call that found a.md and a_1.md taken has left the loop after three
\* evaluations, with a_2.md.
C30_Witness ==
    /\ fn = "save_to_markdown"
    /\ \E w \in Writers :
          /\ writers[w].pc = "open"
          /\ writers[w].counter = 2
          /\ Cardinality(DOMAIN outdir) = 2
          /\ FilePath(w) = <<"a", "_", "2">> \o MdSuffix
          /\ FilePath(w) \notin DOMAIN outdir

(***************************************************************************)
(* sync_workflow (src/main.py), called once.  What the remote service      *)
(* answers is part of the call's input: 'favorite' is what                 *)
(* get_favorite_info returns (None, or the identifiers of the collection), *)
(* 'fetch_ok' the identifiers whose metadata fetch succeeds.               *)
(***************************************************************************)
\* The keywords of the DataSyncManager(...) call of sync_workflow, and the
\* parameters DataSyncManager.__init__ declares.
KeywordsPassed ==
    {"output_dir", "reformat", "api_key", "step5_max_workers", "llm_timeout_sec",
     "max_original_subtitle_chars", "max_video_duration_sec"}

InitParameters == {"output_dir", "sync_records_dir"}

\* A call with a keyword the function does not declare raises TypeError.
ConstructorRaises(keywords, parameters) == keywords \ parameters # {}

\* A history of one snapshot, {A}, written a second before the start.
WorkflowRecDirs == {<<>>, RecordName(1, StartClock - 1) :> Snapshot({"A"})}

WorkflowArgs ==
    {[media_id |-> m, favorite |-> f, fetch_ok |-> ok, reformat |-> r] :
        m \in MediaIds,
        f \in {[ok |-> FALSE, bvids |-> <<>>]} \cup
              {[ok |-> TRUE, bvids |-> l] : l \in SeqsUpTo(BVs, MaxManifest)},
        ok \in SUBSET BVs,
        r \in BOOLEAN}

WorkflowInit ==
    /\ SyncInit(InitialOutDirs, WorkflowRecDirs)
    /\ subtitles = <<>>
    /\ selected = <<>>
    /\ selpc = "none"
    /\ fn = "sync_workflow"
    /\ arg \in WorkflowArgs
    /\ ret = <<>>
    /\ writers = <<>>

\* get_batch_video_info: one entry per identifier, in the order given.
get_batch_video_info(bvs, fetch_ok) ==
    [i \in 1..Len(bvs) |->
        [bv |-> bvs[i], title |-> TitleOf[bvs[i]], success |-> bvs[i] \in fetch_ok]]

RECURSIVE SaveEach(_, _)
SaveEach(dir, video_infos) ==
    IF video_infos = <<>> THEN dir
    ELSE SaveEach(save_to_markdown(dir, video_infos[1], "ok"), Tail(video_infos))

\* The whole function.  Steps 2 to 6 stand after the constructor call.
SyncWorkflow ==
    /\ fn = "sync_workflow" /\ ret = <<>>
    /\ LET bvids  == arg.favorite.bvids
           synced == load_sync_record(recdir, arg.media_id)
       IN  IF ~arg.favorite.ok \/ ConstructorRaises(KeywordsPassed, InitParameters)
           THEN /\ ret' = Returned("false")
                /\ UNCHANGED <<outdir, recdir>>
           ELSE \E target_list \in (IF synced # {} THEN compare_and_filter(bvids, synced)
                                    ELSE {bvids}) :
                   LET infos      == get_batch_video_info(target_list, arg.fetch_ok)
                       successful == FilterSeq(infos, {it \in ToSet(infos) : it.success})
                   IN  IF synced # {} /\ target_list = <<>>
                       THEN /\ ret' = Returned("true")
                            /\ UNCHANGED <<outdir, recdir>>
                       ELSE IF successful = <<>>
                       THEN /\ ret' = Returned("false")
                            /\ UNCHANGED <<outdir, recdir>>
                       ELSE /\ outdir' = SaveEach(outdir, successful)
                            /\ recdir' = update_sync_record(recdir, arg.media_id,
                                                            ToSet(bvids), clock, "ok")
                            /\ ret' = Returned("true")
    /\ UNCHANGED <<clock, pc, argVars, localVars, result, runs, fault, made, failed,
                   appended, prevVars, archived, omitted, faults, subtitles, selected,
                   selpc, fn, arg, writers>>

WorkflowNext == SyncWorkflow

WorkflowSpec == WorkflowInit /\ [][WorkflowNext]_vars

\* C27: a sync_workflow call whose manifest fetch succeeds and that has a
\* pending item whose metadata fetch succeeds (every write succeeds here)
\* writes an artifact for each such item, appends a snapshot that holds the
\* whole manifest, and returns True.
C27_WorkflowSucceeds ==
    [][(/\ fn = "sync_workflow" /\ ret = <<>> /\ DOMAIN ret' # {}
        /\ arg.favorite.ok
        /\ \E b \in ToSet(arg.favorite.bvids) \ load_sync_record(recdir, arg.media_id) :
              b \in arg.fetch_ok) =>
          /\ ret'.value = "true"
          /\ load_sync_record(recdir', arg.media_id) = ToSet(arg.favorite.bvids)
          /\ \A b \in (ToSet(arg.favorite.bvids) \cap arg.fetch_ok)
                          \ load_sync_record(recdir, arg.media_id) :
                \E path \in DOMAIN outdir' \ DOMAIN outdir : outdir'[path].bv = b]_vars

(***************************************************************************)
(* update_sync_record and load_sync_record called in any order for two     *)
(* collections that share the sync_records directory.  The identifier of   *)
(* one is a prefix of the other's.                                         *)
(***************************************************************************)
RecordMediaIds == {1, 12}

RecordContents == {{"A"}, {"B"}}

RecordInit ==
    /\ SyncInit({<<>>}, {<<>>})
    /\ subtitles = <<>>
    /\ selected = <<>>
    /\ selpc = "none"
    /\ NoTextCall

RecordUnchanged ==
    UNCHANGED <<outdir, clock, pc, argVars, localVars, result, fault, made, failed,
                appended, prevVars, archived, omitted, faults, subtitles, selected,
                selpc, writers>>

UpdateSyncRecordCall ==
    /\ runs < MaxRuns
    /\ \E m \in RecordMediaIds, bvs \in RecordContents, outcome \in UpdateOutcomes :
          /\ fn' = "update_sync_record"
          /\ arg' = [media_id |-> m, all_synced_bvs |-> bvs]
          /\ recdir' = update_sync_record(recdir, m, bvs, clock, outcome)
          /\ ret' = Returned(IF outcome = "ok" THEN "true" ELSE "false")
    /\ runs' = runs + 1
    /\ RecordUnchanged

LoadSyncRecordCall ==
    /\ \E m \in RecordMediaIds :
          /\ fn' = "load_sync_record"
          /\ arg' = [media_id |-> m]
          /\ ret' = Returned(load_sync_record(recdir, m))
    /\ UNCHANGED <<recdir, runs>>
    /\ RecordUnchanged

RecordNext ==
    \/ Tick
    \/ UpdateSyncRecordCall
    \/ LoadSyncRecordCall

RecordSpec == RecordInit /\ [][RecordNext]_vars

\* The file names update_sync_record gives to snapshots of a collection.
NamesWrittenFor(m) == {RecordName(m, t) : t \in StartClock..(StartClock + MaxTicks)}

\* C28: an update_sync_record call for one collection changes what
\* load_sync_record returns for no other collection, and what
\* load_sync_record returns for a collection is empty or the content of a
\* file named for that collection and for no other.
C28_CollectionsIsolated ==
    [][/\ fn' = "update_sync_record" =>
              \A x \in RecordMediaIds \ {arg'.media_id} :
                  load_sync_record(recdir', x) = load_sync_record(recdir, x)
       /\ fn' = "load_sync_record" =>
              \/ ret'.value = {}
              \/ \E n \in DOMAIN recdir :
                    /\ n \in NamesWrittenFor(arg'.media_id)
                    /\ \A y \in RecordMediaIds \ {arg'.media_id} :
                          n \notin NamesWrittenFor(y)
                    /\ ret'.value = recdir[n].synced_bvs]_vars

\* Collection 12 has the later snapshot, {B}, collection 1 has {A}, and
\* load_sync_record(1) has returned {A}.
C28_Witness ==
    /\ fn = "load_sync_record" /\ arg.media_id = 1
    /\ RecordName(1, StartClock) \in DOMAIN recdir
    /\ recdir[RecordName(1, StartClock)] = Snapshot({"A"})
    /\ RecordName(12, StartClock + 1) \in DOMAIN recdir
    /\ recdir[RecordName(12, StartClock + 1)] = Snapshot({"B"})
    /\ ret.value = {"A"}

(***************************************************************************)
(* C29.  Artifacts per identifier within one run.                          *)
(***************************************************************************)
\* C29: a run creates at most one file for an identifier, also when the
\* metadata file lists the identifier more than once.
C29_OneArtifactPerIdentifier ==
    \A b \in BVs : made[b] <= 1
=============================================================================
